---- MODULE Spec2Model ----
(***************************************************************************)
(* Model of source/blender/editors/asset/intern/asset_shelf_asset_view.cc: *)
(* the asset shelf's grid view (AssetView), its items (AssetViewItem) and  *)
(* their drag controller (AssetDragController).                            *)
(*                                                                         *)
(* Pointers and std::optional values are sequences of length at most one:  *)
(* Null (<<>>) is nullptr / std::nullopt, Ptr(x) (<<x>>) holds x.  An      *)
(* AssetShelfType* is the position of the shelf type in the space type's   *)
(* asset_shelf_types list, so two equal shelf types stay distinct.         *)
(*                                                                         *)
(* A read through a null pointer is undefined behaviour; it is modelled as *)
(* a choice between the process crashing and the read yielding some value  *)
(* of its type (the run then completes with ub = TRUE).                    *)
(***************************************************************************)
EXTENDS Integers, Sequences, FiniteSets, TLC

VARIABLES
    asset_library,      \* ED_assetlist_library_get_once_available(): Null or Ptr([assets])
    asset_shelf_types,  \* SpaceType.asset_shelf_types of the registered space type
    view,               \* the AssetView last constructed: Null or Ptr(view record)
    drag_controller,    \* the AssetDragController last created: Null or Ptr([asset]), with its results
    last                \* what the last call did (callbacks invoked, result, status)

vars == <<asset_library, asset_shelf_types, view, drag_controller, last>>

MaxShelfTypes == 2
MaxAssets == 2

Null == <<>>
Ptr(x) == <<x>>

(***************************************************************************)
(* Value domains.                                                          *)
(***************************************************************************)
Modes == {"mode1", "mode2"}
RelativePaths == {"path1", "path2"}
CatalogIds == {"id_cat", "id_sub"}
ImportMethods == {"ASSET_IMPORT_LINK", "ASSET_IMPORT_APPEND", "ASSET_IMPORT_APPEND_REUSE"}
SpaceTypeIds == {"SPACE_VIEW3D", "SPACE_EMPTY"}
DisplayFlags == {{}, {"ASSETSHELF_SHOW_NAMES"}}
TypeFlags == {{}, {"ASSET_SHELF_TYPE_NO_ASSET_DRAG"}}

\* AssetShelfType: poll and asset_poll are "unset" (a null callback) or name
\* the context mode / the asset path the callback accepts.
ShelfTypes(polls, asset_polls, flags, menus) ==
    [poll : polls, asset_poll : asset_polls, flag : flags, draw_context_menu : menus]

AssetHandles(paths, catalogs, local_ids, import_methods) ==
    [relative_path : paths, catalog_id : catalogs, local_id : local_ids,
     import_method : import_methods]

SeqsUpTo(S, n) == UNION {[1..k -> S] : k \in 0..n}

Contexts(space_datas) == [space_data : space_datas, mode : Modes]

ShelfSettings(paths, flags) ==
    {Null} \cup {Ptr(s) : s \in [active_catalog_path : paths, display_flag : flags]}

(***************************************************************************)
(* The catalog service of the library (asset_system, outside this file).   *)
(***************************************************************************)
Catalogs ==
    { [path |-> "cat", catalog_id |-> "id_cat", parent |-> "none"],
      [path |-> "cat/sub", catalog_id |-> "id_sub", parent |-> "id_cat"] }

find_catalog_by_path(path) ==
    LET found == {c \in Catalogs : c.path = path}
    IN  IF found = {} THEN Null ELSE Ptr(CHOOSE c \in found : TRUE)

\* The filter matches the catalog itself and the catalogs below it.
create_catalog_filter(catalog_id) ==
    {catalog_id} \cup {c.catalog_id : c \in {d \in Catalogs : d.parent = catalog_id}}

AssetCatalogFilter_contains(filter, catalog_id) == catalog_id \in filter

(***************************************************************************)
(* Host queries on an asset handle and on the context.                     *)
(***************************************************************************)
ED_asset_handle_get_relative_path(asset) == asset.relative_path
ED_asset_handle_get_name(asset) == <<"name of", asset.relative_path>>
ED_asset_handle_get_preview_icon_id(asset) == <<"preview of", asset.relative_path>>
ED_asset_handle_get_local_id(asset) == asset.local_id
ED_asset_handle_get_import_method(asset) == asset.import_method
ED_asset_handle_get_full_library_path(asset) == <<"library root", asset.relative_path>>

CTX_wm_space_data(C) == C.space_data

BKE_spacetype_from_id(spacetype) ==
    IF spacetype = "SPACE_VIEW3D"
    THEN Ptr([asset_shelf_types |-> asset_shelf_types])
    ELSE Null

\* The plugin callbacks: what a set callback answers.
poll(shelf_type, C) == shelf_type.poll = C.mode
asset_poll(shelf_type, asset) == shelf_type.asset_poll = asset.relative_path

(***************************************************************************)
(* asset_shelf_types_showing_asset and shelves_is_any_no_asset_drag.       *)
(***************************************************************************)
ShelfTypeSkippedByPoll(shelf_type, C) ==
    shelf_type.poll = "unset" \/ ~poll(shelf_type, C)

ShelfTypeAcceptsAsset(shelf_type, asset) ==
    shelf_type.asset_poll = "unset" \/ asset_poll(shelf_type, asset)

asset_shelf_types_showing_asset(shelf_types, C, asset) ==
    SelectSeq([i \in 1..Len(shelf_types) |-> i],
              LAMBDA i : /\ ~ShelfTypeSkippedByPoll(shelf_types[i], C)
                         /\ ShelfTypeAcceptsAsset(shelf_types[i], asset))

\* The callbacks asset_shelf_types_showing_asset invokes for one asset.
PollCallbacks(shelf_types, C, asset) ==
    {<<i, "poll">> : i \in {j \in 1..Len(shelf_types) : shelf_types[j].poll # "unset"}}
    \cup
    {<<i, "asset_poll">> :
        i \in {j \in 1..Len(shelf_types) :
                 /\ ~ShelfTypeSkippedByPoll(shelf_types[j], C)
                 /\ shelf_types[j].asset_poll # "unset"}}

shelves_is_any_no_asset_drag_all(shelves, shelf_types) ==
    \A k \in 1..Len(shelves) :
        "ASSET_SHELF_TYPE_NO_ASSET_DRAG" \in shelf_types[shelves[k]].flag

shelves_is_any_no_asset_drag(shelves, shelf_types) ==
    \E k \in 1..Len(shelves) :
        "ASSET_SHELF_TYPE_NO_ASSET_DRAG" \in shelf_types[shelves[k]].flag

(***************************************************************************)
(* AssetView and AssetViewItem.                                            *)
(***************************************************************************)
AssetView_keeps_items(shelf_settings, C) ==
    [shelf_settings_ |-> shelf_settings, evil_C_ |-> C, catalog_filter_ |-> Null,
     items |-> IF view = Null THEN <<>> ELSE view[1].items,
     registered |-> FALSE, ub |-> FALSE]

\* AssetView::AssetView: catalog_filter_ starts as std::nullopt, no items.
AssetView(shelf_settings, C) ==
    [shelf_settings_ |-> shelf_settings, evil_C_ |-> C, catalog_filter_ |-> Null,
     items |-> <<>>, registered |-> FALSE, ub |-> FALSE]

set_catalog_filter(v, catalog_filter) ==
    IF catalog_filter # Null
    THEN [v EXCEPT !.catalog_filter_ = Ptr(catalog_filter[1])]
    ELSE [v EXCEPT !.catalog_filter_ = Null]

catalog_filter_from_shelf_settings(shelf_settings) ==
    IF shelf_settings = Null \/ shelf_settings[1].active_catalog_path = Null
    THEN Null
    ELSE LET active_catalog == find_catalog_by_path(shelf_settings[1].active_catalog_path[1])
         IN  IF active_catalog = Null
             THEN Null
             ELSE Ptr(create_catalog_filter(active_catalog[1].catalog_id))

\* AssetViewItem::AssetViewItem: allow_asset_drag_ starts TRUE.
AssetViewItem(asset, identifier, label, preview_icon_id) ==
    [asset_ |-> asset, identifier |-> identifier, label |-> label,
     preview_icon_id |-> preview_icon_id, allow_asset_drag_ |-> TRUE]

disable_asset_drag(item) == [item EXCEPT !.allow_asset_drag_ = FALSE]

CatalogFilterSkips_never(catalog_filter, asset) == FALSE

\* Line 147: the asset is skipped when a filter is set and does not contain its catalog.
CatalogFilterSkips(catalog_filter, asset) ==
    /\ catalog_filter # Null
    /\ ~AssetCatalogFilter_contains(catalog_filter[1], asset.catalog_id)

\* Line 155: the path within the library is the identifier.
item_identifier(asset) == ED_asset_handle_get_relative_path(asset)

skip_asset_stops == FALSE

\* Lines 142 and 149: what the iteration callback returns for a skipped asset.
skip_asset_return == TRUE

\* The lambda build_items passes to ED_assetlist_iterate, for the asset at
\* position i.  acc is what the run has done so far.
build_items_callback(v, shelf_types, display_flag, asset, i, acc) ==
    LET shelves_showing_asset == asset_shelf_types_showing_asset(shelf_types, v.evil_C_, asset)
        seen == [acc EXCEPT !.visited = Append(@, i),
                            !.callbacks = @ \cup {<<i, c[1], c[2]>> :
                                                    c \in PollCallbacks(shelf_types, v.evil_C_, asset)}]
        show_names == "ASSETSHELF_SHOW_NAMES" \in display_flag
        item == AssetViewItem(asset,
                              item_identifier(asset),
                              IF show_names THEN ED_asset_handle_get_name(asset) ELSE <<>>,
                              ED_asset_handle_get_preview_icon_id(asset))
    IN  IF shelves_showing_asset = <<>>
        THEN [continue |-> skip_asset_return, acc |-> seen]
        ELSE IF CatalogFilterSkips(v.catalog_filter_, asset)
        THEN [continue |-> skip_asset_return, acc |-> seen]
        ELSE [continue |-> TRUE,
              acc |-> [seen EXCEPT !.items =
                          Append(@, IF shelves_is_any_no_asset_drag(shelves_showing_asset, shelf_types)
                                    THEN disable_asset_drag(item)
                                    ELSE item)]]

\* ED_assetlist_iterate: calls the function for each asset in list order
\* until it returns false.
RECURSIVE ED_assetlist_iterate(_, _, _, _, _, _)
ED_assetlist_iterate(assets, i, v, shelf_types, display_flag, acc) ==
    IF i > Len(assets)
    THEN acc
    ELSE LET r == build_items_callback(v, shelf_types, display_flag, assets[i], i, acc)
         IN  IF r.continue
             THEN ED_assetlist_iterate(assets, i + 1, v, shelf_types, display_flag, r.acc)
             ELSE r.acc

\* A run of build_items starts from the items the view holds (add_item appends).
StartOf(v) == [items |-> v.items, visited |-> <<>>, callbacks |-> {}]


(***************************************************************************)
(* Reads through pointers that may be null.  What such a read yields when  *)
(* the process survives it: zero-filled memory.                            *)
(***************************************************************************)
GarbageSpaceTypes == {"SPACE_EMPTY"}
GarbageShelfTypeLists == {<<>>}
GarbageDisplayFlags == {{}}

\* Lines 134-135 and 230-231: space_link->spacetype, then the space type of
\* that id.  The result is the set of runs the reads allow: each names the
\* shelf-type list the run then sees.  `dereferenced` says whether
\* *space_type is evaluated at all (build_items evaluates it per asset).
SpaceTypeReads(C, dereferenced) ==
    LET space_link == CTX_wm_space_data(C)
        spacetypes == IF space_link # Null
                      THEN {[ub |-> FALSE, spacetype |-> space_link[1].spacetype]}
                      ELSE {[ub |-> TRUE, spacetype |-> s] : s \in GarbageSpaceTypes}
        ListsOf(r) ==
            LET space_type == BKE_spacetype_from_id(r.spacetype)
            IN  IF space_type # Null
                THEN {[crashed |-> FALSE, ub |-> r.ub,
                       shelf_types |-> space_type[1].asset_shelf_types]}
                ELSE IF ~dereferenced
                THEN {[crashed |-> FALSE, ub |-> r.ub, shelf_types |-> <<>>]}
                ELSE {[crashed |-> TRUE, ub |-> TRUE, shelf_types |-> <<>>]}
                     \cup {[crashed |-> FALSE, ub |-> TRUE, shelf_types |-> l] :
                             l \in GarbageShelfTypeLists}
    IN  (IF space_link = Null
         THEN {[crashed |-> TRUE, ub |-> TRUE, shelf_types |-> <<>>]}
         ELSE {})
        \cup UNION {ListsOf(r) : r \in spacetypes}

\* Line 152: shelf_settings_.display_flag, read through the reference bound
\* to *shelf_settings on line 265.
DisplayFlagReads(shelf_settings) ==
    IF shelf_settings # Null THEN {shelf_settings[1].display_flag} ELSE GarbageDisplayFlags

(***************************************************************************)
(* AssetView::build_items.                                                 *)
(***************************************************************************)
library_missing_never(library) == FALSE

\* Lines 131 and 257: if (!library) return;
library_missing(library) == library = Null

LibraryAssets(library) == IF library = Null THEN <<>> ELSE library[1].assets

\* A run that ended the process, and one that returned.
Crashed == [returned |-> FALSE, ub |-> TRUE, items |-> <<>>, visited |-> <<>>, callbacks |-> {}]

Finished(run, ub) ==
    [returned |-> TRUE, ub |-> ub, items |-> run.items, visited |-> run.visited,
     callbacks |-> run.callbacks]

\* The runs of build_items on the view v: one when nothing undefined is read.
\* The display flag is read (line 152) once an asset passes both filters.
build_items(v) ==
    IF library_missing(asset_library)
    THEN {Finished(StartOf(v), FALSE)}
    ELSE LET assets == LibraryAssets(asset_library)
             RunsWith(space, display_flag) ==
                 IF space.crashed
                 THEN {Crashed}
                 ELSE LET run == ED_assetlist_iterate(assets, 1, v, space.shelf_types,
                                                      display_flag, StartOf(v))
                      IN  IF v.shelf_settings_ = Null /\ run.items # <<>>
                          THEN {Crashed, Finished(run, TRUE)}
                          ELSE {Finished(run, space.ub \/ v.shelf_settings_ = Null)}
         IN  UNION {RunsWith(space, display_flag) :
                       space \in SpaceTypeReads(v.evil_C_, assets # <<>>),
                       display_flag \in DisplayFlagReads(v.shelf_settings_)}

(***************************************************************************)
(* The calls.  `last` records the last call: its arguments, how it ended   *)
(* ("ok", "no_library", "ub": completed after an undefined read,           *)
(* "crashed") and the callbacks it invoked.                                *)
(***************************************************************************)
Idle ==
    [op |-> "none", status |-> "ok", shelf_settings |-> Null, C |-> Null, item |-> 0,
     visited |-> <<>>, callbacks |-> {}, menu |-> <<>>, replaced |-> FALSE]

Running == last.status # "crashed"

StatusOf(ub) == IF ub THEN "ub" ELSE "ok"

\* Whether the view of this pass replaces an earlier one with another
\* catalog filter and other items.
DiffersFrom(old, new) ==
    /\ old # Null
    /\ old[1].catalog_filter_ # new.catalog_filter_
    /\ old[1].items # new.items

\* build_asset_view(layout, library_ref, shelf_settings, C, region).  The
\* storage fetch and the previews job (lines 253-254) start loading; the
\* library becomes available by AssetListLoad.
BuildAssetView(settings_domain, context_domain) ==
    /\ Running
    /\ \E shelf_settings \in settings_domain, C \in context_domain :
         LET call == [Idle EXCEPT !.op = "build_asset_view",
                                  !.shelf_settings = shelf_settings, !.C = Ptr(C)]
         IN  IF library_missing(asset_library)
             THEN /\ last' = [Idle EXCEPT !.op = "build_asset_view", !.status = "no_library"]
                  /\ UNCHANGED <<view, drag_controller>>
             ELSE LET asset_view ==
                          set_catalog_filter(AssetView(shelf_settings, C),
                                             catalog_filter_from_shelf_settings(shelf_settings))
                  IN  \E run \in build_items(asset_view) :
                        IF ~run.returned
                        THEN /\ last' = [call EXCEPT !.status = "crashed"]
                             /\ view' = Null
                             /\ drag_controller' = Null
                        ELSE LET built == [asset_view EXCEPT !.items = run.items,
                                                             !.registered = TRUE,
                                                             !.ub = run.ub]
                             IN  /\ view' = Ptr(built)
                                 /\ drag_controller' = Null
                                 /\ last' = [call EXCEPT !.status = StatusOf(run.ub),
                                                         !.visited = run.visited,
                                                         !.callbacks = run.callbacks,
                                                         !.replaced = DiffersFrom(view, built)]
    /\ UNCHANGED <<asset_library, asset_shelf_types>>

\* AssetView::build_items() called on a newly constructed AssetView that no
\* block holds (the view framework's entry point, without build_asset_view).
AssetViewBuildItems(settings_domain, context_domain) ==
    /\ Running
    /\ \E shelf_settings \in settings_domain, C \in context_domain :
         LET call == [Idle EXCEPT !.op = "build_items",
                                  !.shelf_settings = shelf_settings, !.C = Ptr(C)]
             asset_view == AssetView(shelf_settings, C)
         IN  \E run \in build_items(asset_view) :
               IF ~run.returned
               THEN /\ last' = [call EXCEPT !.status = "crashed"]
                    /\ view' = Null
                    /\ drag_controller' = Null
               ELSE /\ view' = Ptr([asset_view EXCEPT !.items = run.items, !.ub = run.ub])
                    /\ drag_controller' = Null
                    /\ last' = [call EXCEPT !.status = StatusOf(run.ub),
                                            !.visited = run.visited,
                                            !.callbacks = run.callbacks]
    /\ UNCHANGED <<asset_library, asset_shelf_types>>

(***************************************************************************)
(* AssetViewItem::build_context_menu.                                      *)
(***************************************************************************)
\* Lines 235-237: the draw_context_menu calls, in the order of the vector.
\* A call through an unset callback either ends the process (the calls made
\* before it remain) or does nothing.
RECURSIVE DrawContextMenuCalls(_, _, _, _)
DrawContextMenuCalls(shelves, shelf_types, k, done) ==
    IF k > Len(shelves)
    THEN {done}
    ELSE IF shelf_types[shelves[k]].draw_context_menu
    THEN DrawContextMenuCalls(shelves, shelf_types, k + 1,
                              [done EXCEPT !.menu = Append(@, shelves[k])])
    ELSE {[done EXCEPT !.returned = FALSE, !.ub = TRUE]}
         \cup DrawContextMenuCalls(shelves, shelf_types, k + 1, [done EXCEPT !.ub = TRUE])

build_context_menu(item, C) ==
    LET RunsWith(space) ==
            IF space.crashed
            THEN {[returned |-> FALSE, ub |-> TRUE, menu |-> <<>>]}
            ELSE DrawContextMenuCalls(
                     asset_shelf_types_showing_asset(space.shelf_types, C, item.asset_),
                     space.shelf_types, 1,
                     [returned |-> TRUE, ub |-> space.ub, menu |-> <<>>])
    IN  UNION {RunsWith(space) : space \in SpaceTypeReads(C, TRUE)}

BuildContextMenu(context_domain) ==
    /\ Running
    /\ view # Null
    /\ view[1].registered
    /\ \E i \in 1..Len(view[1].items), C \in context_domain :
         \E run \in build_context_menu(view[1].items[i], C) :
            LET call == [Idle EXCEPT !.op = "build_context_menu", !.C = Ptr(C),
                                     !.item = i, !.menu = run.menu]
            IN  IF ~run.returned
                THEN /\ last' = [call EXCEPT !.status = "crashed"]
                     /\ view' = Null
                     /\ drag_controller' = Null
                ELSE /\ last' = [call EXCEPT !.status = StatusOf(run.ub)]
                     /\ UNCHANGED <<view, drag_controller>>
    /\ UNCHANGED <<asset_library, asset_shelf_types>>

(***************************************************************************)
(* Dragging.                                                               *)
(***************************************************************************)
AssetDragController(asset) == [asset_ |-> asset, drag_type |-> "none", drag_data |-> Null]

create_drag_controller(item) ==
    IF item.allow_asset_drag_ THEN Ptr(AssetDragController(item.asset_)) ELSE Null

get_drag_type_always_asset(asset) == "WM_DRAG_ASSET"

get_drag_type(asset) ==
    LET local_id == ED_asset_handle_get_local_id(asset)
    IN  IF local_id # Null THEN "WM_DRAG_ID" ELSE "WM_DRAG_ASSET"

WM_drag_create_asset_data(asset, path, import_method, C) ==
    [asset |-> asset, path |-> path, import_method |-> import_method, evil_C |-> C]

value_or(optional, default) == IF optional # Null THEN optional[1] ELSE default

\* What create_drag_data returns: the local ID itself, or new asset drag data.
create_drag_data(asset, asset_view) ==
    LET local_id == ED_asset_handle_get_local_id(asset)
    IN  IF local_id # Null
        THEN [points_to |-> "ID", id |-> local_id, asset_drag |-> Null]
        ELSE [points_to |-> "wmDragAsset", id |-> Null,
              asset_drag |->
                  Ptr(WM_drag_create_asset_data(
                          asset,
                          ED_asset_handle_get_full_library_path(asset),
                          value_or(ED_asset_handle_get_import_method(asset),
                                   "ASSET_IMPORT_APPEND_REUSE"),
                          asset_view.evil_C_))]

CreateDragController ==
    /\ Running
    /\ view # Null
    /\ view[1].registered
    /\ \E i \in 1..Len(view[1].items) :
         /\ drag_controller' = create_drag_controller(view[1].items[i])
         /\ last' = [Idle EXCEPT !.op = "create_drag_controller", !.item = i]
    /\ UNCHANGED <<asset_library, asset_shelf_types, view>>

GetDragType ==
    /\ Running
    /\ drag_controller # Null
    /\ drag_controller' =
          Ptr([drag_controller[1] EXCEPT !.drag_type = get_drag_type(drag_controller[1].asset_)])
    /\ last' = [Idle EXCEPT !.op = "get_drag_type"]
    /\ UNCHANGED <<asset_library, asset_shelf_types, view>>

CreateDragData ==
    /\ Running
    /\ drag_controller # Null
    /\ drag_controller' =
          Ptr([drag_controller[1] EXCEPT
                 !.drag_data = Ptr(create_drag_data(drag_controller[1].asset_, view[1]))])
    /\ last' = [Idle EXCEPT !.op = "create_drag_data"]
    /\ UNCHANGED <<asset_library, asset_shelf_types, view>>

(***************************************************************************)
(* The host: the asset list storage, the shelf-type registry, the block.   *)
(* The library contents and the registry change while no view is held.    *)
(***************************************************************************)
AssetListLoad(asset_domain) ==
    /\ Running
    /\ view = Null
    /\ \E assets \in SeqsUpTo(asset_domain, MaxAssets) :
         asset_library' = Ptr([assets |-> assets])
    /\ asset_library' # asset_library
    /\ last' = Idle
    /\ UNCHANGED <<asset_shelf_types, view, drag_controller>>

AssetListClear ==
    /\ Running
    /\ asset_library # Null
    /\ asset_library' = Null
    /\ last' = Idle
    /\ UNCHANGED <<asset_shelf_types, view, drag_controller>>

RegisterShelfType(type_domain) ==
    /\ Running
    /\ view = Null
    /\ Len(asset_shelf_types) < MaxShelfTypes
    /\ \E shelf_type \in type_domain :
         asset_shelf_types' = Append(asset_shelf_types, shelf_type)
    /\ last' = Idle
    /\ UNCHANGED <<asset_library, view, drag_controller>>

UnregisterShelfType ==
    /\ Running
    /\ view = Null
    /\ asset_shelf_types # <<>>
    /\ asset_shelf_types' = SubSeq(asset_shelf_types, 1, Len(asset_shelf_types) - 1)
    /\ last' = Idle
    /\ UNCHANGED <<asset_library, view, drag_controller>>

FreeBlock ==
    /\ Running
    /\ view # Null
    /\ view' = Null
    /\ drag_controller' = Null
    /\ last' = Idle
    /\ UNCHANGED <<asset_library, asset_shelf_types>>

Init ==
    /\ asset_library = Null
    /\ asset_shelf_types = <<>>
    /\ view = Null
    /\ drag_controller = Null
    /\ last = Idle

(***************************************************************************)
(* Spec: the view and its filtering.                                       *)
(***************************************************************************)
SpaceView3D == Ptr([spacetype |-> "SPACE_VIEW3D"])
SpaceUnknown == Ptr([spacetype |-> "SPACE_EMPTY"])

ViewShelfTypes == ShelfTypes({"unset", "mode1"}, {"unset", "path1"}, {{}}, {TRUE})
ViewAssets == AssetHandles(RelativePaths, CatalogIds, {Null}, {Null})
ViewSettings ==
    ShelfSettings({Null, Ptr("cat"), Ptr("cat/sub"), Ptr("gone")}, {{"ASSETSHELF_SHOW_NAMES"}})
HarnessSettings == {Ptr([active_catalog_path |-> Null, display_flag |-> {}])}
ViewContexts == Contexts({SpaceView3D})

Next ==
    \/ BuildAssetView(ViewSettings, ViewContexts)
    \/ AssetViewBuildItems(HarnessSettings, ViewContexts)
    \/ AssetListLoad(ViewAssets)
    \/ AssetListClear
    \/ RegisterShelfType(ViewShelfTypes)
    \/ UnregisterShelfType
    \/ FreeBlock

Spec == Init /\ [][Next]_vars

(***************************************************************************)
(* SpecItem: the items' context menu and drag switch.                      *)
(***************************************************************************)
ItemShelfTypes == ShelfTypes({"unset", "mode1"}, {"unset"}, TypeFlags, BOOLEAN)
ItemAssets == AssetHandles({"path1"}, {"id_cat"}, {Null}, {Null})
ItemSettings == {Ptr([active_catalog_path |-> Null, display_flag |-> f]) : f \in DisplayFlags}
ItemContexts == Contexts({SpaceView3D, SpaceUnknown, Null})

NextItem ==
    \/ BuildAssetView(ItemSettings, ItemContexts)
    \/ BuildContextMenu(ItemContexts)
    \/ CreateDragController
    \/ AssetListLoad(ItemAssets)
    \/ RegisterShelfType(ItemShelfTypes)
    \/ UnregisterShelfType
    \/ FreeBlock

SpecItem == Init /\ [][NextItem]_vars

(***************************************************************************)
(* SpecDrag: the drag controller of an item.                               *)
(***************************************************************************)
DragShelfTypes == ShelfTypes({"mode1"}, {"unset"}, {{}}, {TRUE})
DragAssets ==
    AssetHandles({"path1"}, {"id_cat"}, {Null, Ptr("local ID")},
                 {Null} \cup {Ptr(m) : m \in ImportMethods})
DragSettings == {Ptr([active_catalog_path |-> Null, display_flag |-> {}])}
DragContexts == {[space_data |-> SpaceView3D, mode |-> "mode1"]}

NextDrag ==
    \/ BuildAssetView(DragSettings, DragContexts)
    \/ CreateDragController
    \/ GetDragType
    \/ CreateDragData
    \/ AssetListLoad(DragAssets)
    \/ RegisterShelfType(DragShelfTypes)
    \/ FreeBlock

SpecDrag == Init /\ [][NextDrag]_vars

(***************************************************************************)
(* Properties.                                                             *)
(***************************************************************************)
Range(seq) == {seq[k] : k \in 1..Len(seq)}

ItemAssetsOf(v) == [k \in 1..Len(v.items) |-> v.items[k].asset_]

\* A build_asset_view or build_items call on an available library that read
\* nothing undefined has just returned.
BuildReturned ==
    /\ last.op \in {"build_asset_view", "build_items"}
    /\ last.status = "ok"
    /\ asset_library # Null

BuildAssetViewReturned ==
    /\ last.op = "build_asset_view"
    /\ last.status = "ok"

SpaceTypeMissing(C) ==
    \/ CTX_wm_space_data(C) = Null
    \/ BKE_spacetype_from_id(CTX_wm_space_data(C)[1].spacetype) = Null

ShownIn(v, asset) ==
    asset_shelf_types_showing_asset(asset_shelf_types, v.evil_C_, asset) # <<>>

InCatalogFilter(v, asset) ==
    v.catalog_filter_ = Null \/ asset.catalog_id \in v.catalog_filter_[1]

\* C1: after build_items on an available library, the items are exactly the
\* assets of the library, in order, for which asset_shelf_types_showing_asset
\* returned a non-empty vector and that the catalog filter, if set, contains.
C1_ItemIffShownAndInCatalog ==
    BuildReturned =>
        LET v == view[1]
            Passes(asset) == ShownIn(v, asset) /\ InCatalogFilter(v, asset)
        IN  ItemAssetsOf(v) = SelectSeq(asset_library[1].assets, Passes)

\* C1 witness: a view with a catalog filter over two assets shown by a shelf
\* type, one inside the filter (it has an item), one outside (it has none).
C1_Witness ==
    /\ BuildReturned
    /\ view[1].catalog_filter_ # Null
    /\ Len(asset_library[1].assets) = 2
    /\ Len(view[1].items) = 1
    /\ \A k \in 1..2 : ShownIn(view[1], asset_library[1].assets[k])
    /\ \E k \in 1..2 : ~InCatalogFilter(view[1], asset_library[1].assets[k])

\* The shelf types C2 says display the asset: a type without poll accepts.
ClaimedShowingAsset(shelf_types, C, asset) ==
    SelectSeq([i \in 1..Len(shelf_types) |-> i],
              LAMBDA i : /\ (shelf_types[i].poll = "unset" \/ poll(shelf_types[i], C))
                         /\ (shelf_types[i].asset_poll = "unset"
                             \/ asset_poll(shelf_types[i], asset)))

\* C2 (as stated): asset_shelf_types_showing_asset returns the shelf types
\* whose poll is unset or accepts the context and whose asset_poll is unset
\* or accepts the asset.
C2_ShowingAsClaimed ==
    BuildReturned =>
        \A asset \in Range(asset_library[1].assets) :
            asset_shelf_types_showing_asset(asset_shelf_types, view[1].evil_C_, asset)
              = ClaimedShowingAsset(asset_shelf_types, view[1].evil_C_, asset)

\* C3: with the library not available, build_asset_view leaves the view
\* and the drag controller as they were and invokes no callback, and
\* build_items adds no item and invokes no callback.
C3_Step ==
    /\ (asset_library = Null /\ last'.op = "build_asset_view") =>
          /\ view' = view
          /\ drag_controller' = drag_controller
          /\ last'.status = "no_library"
          /\ last'.callbacks = {}
          /\ last'.visited = <<>>
    /\ (asset_library = Null /\ last'.op = "build_items") =>
          /\ view' # Null
          /\ view'[1].items = <<>>
          /\ ~view'[1].registered
          /\ last'.callbacks = {}
          /\ last'.visited = <<>>

C3_NoLibraryNoView == [][C3_Step]_vars

\* C3 witness: build_asset_view returned for want of a library while shelf
\* types with callbacks are registered and the view of an earlier pass is held.
C3_Witness ==
    /\ last.op = "build_asset_view"
    /\ last.status = "no_library"
    /\ asset_library = Null
    /\ view # Null
    /\ view[1].items # <<>>
    /\ \E i \in 1..Len(asset_shelf_types) : asset_shelf_types[i].poll # "unset"

\* C4 (as stated): when the context has no space data or no space type is
\* found for it, build_items and build_context_menu complete, with no item
\* added and no context-menu entry drawn.
C4_MissingSpaceTypeHandled ==
    (/\ last.op \in {"build_asset_view", "build_context_menu"}
     /\ last.C # Null
     /\ SpaceTypeMissing(last.C[1]))
    => /\ last.status = "ok"
       /\ last.menu = <<>>
       /\ (last.op = "build_asset_view" => view # Null /\ view[1].items = <<>>)

NoCatalogFor(shelf_settings) ==
    \/ shelf_settings = Null
    \/ shelf_settings[1].active_catalog_path = Null
    \/ find_catalog_by_path(shelf_settings[1].active_catalog_path[1]) = Null

\* C5 (as stated): with null shelf settings, an unset active catalog path or
\* no catalog for the path, build_asset_view completes, the view has no
\* catalog filter and every asset shown by a shelf type has an item.
C5_NoCatalogNoFilter ==
    (/\ last.op = "build_asset_view"
     /\ last.status # "no_library"
     /\ ~SpaceTypeMissing(last.C[1])
     /\ NoCatalogFor(last.shelf_settings))
    => /\ last.status # "crashed"
       /\ view # Null
       /\ view[1].catalog_filter_ = Null
       /\ LET Shown(asset) == ShownIn(view[1], asset)
          IN  ItemAssetsOf(view[1]) = SelectSeq(asset_library[1].assets, Shown)

\* C6: the drag type and the drag data of a drag controller agree: for an
\* asset with a local ID the type is WM_DRAG_ID and the data is that ID; for
\* one without, the type is WM_DRAG_ASSET and the data is asset drag data of
\* the asset's full library path and import method, ASSET_IMPORT_APPEND_REUSE
\* when the asset names none.
C6_DragTypeAndDataAgree ==
    drag_controller # Null =>
        LET c == drag_controller[1]
            asset == c.asset_
        IN  /\ c.drag_type # "none" =>
                  c.drag_type = IF asset.local_id # Null THEN "WM_DRAG_ID" ELSE "WM_DRAG_ASSET"
            /\ c.drag_data # Null =>
                  LET data == c.drag_data[1]
                  IN  IF asset.local_id # Null
                      THEN /\ data.points_to = "ID"
                           /\ data.id = asset.local_id
                           /\ data.asset_drag = Null
                      ELSE /\ data.points_to = "wmDragAsset"
                           /\ data.asset_drag # Null
                           /\ data.asset_drag[1].asset = asset
                           /\ data.asset_drag[1].path = <<"library root", asset.relative_path>>
                           /\ data.asset_drag[1].import_method =
                                 (IF asset.import_method = Null
                                  THEN "ASSET_IMPORT_APPEND_REUSE"
                                  ELSE asset.import_method[1])
            /\ (c.drag_type # "none" /\ c.drag_data # Null) =>
                  (c.drag_type = "WM_DRAG_ID" <=> c.drag_data[1].points_to = "ID")

\* C6 witness: both calls made on the controller of an asset without local
\* ID and without import method.
C6_Witness ==
    /\ drag_controller # Null
    /\ drag_controller[1].asset_.local_id = Null
    /\ drag_controller[1].asset_.import_method = Null
    /\ drag_controller[1].drag_type = "WM_DRAG_ASSET"
    /\ drag_controller[1].drag_data # Null

\* C7 (as stated): build_context_menu invokes draw_context_menu once for each
\* shelf type showing the item's asset at menu time, in registration order,
\* and never calls through an unset callback.
C7_MenuForEachShowingType ==
    (/\ last.op = "build_context_menu"
     /\ ~SpaceTypeMissing(last.C[1]))
    => /\ last.status = "ok"
       /\ view # Null
       /\ last.menu = asset_shelf_types_showing_asset(
                          asset_shelf_types, last.C[1], view[1].items[last.item].asset_)

DragDisabledFor(v, asset) ==
    \E i \in Range(asset_shelf_types_showing_asset(asset_shelf_types, v.evil_C_, asset)) :
        "ASSET_SHELF_TYPE_NO_ASSET_DRAG" \in asset_shelf_types[i].flag

\* C8: an item added by build_items has dragging disabled exactly if a shelf
\* type showing its asset has ASSET_SHELF_TYPE_NO_ASSET_DRAG, and at any
\* later time create_drag_controller returns null for exactly these items
\* and a controller of the item's asset for the others.
C8_DragDisabledIffRequested ==
    /\ BuildAssetViewReturned =>
          \A k \in 1..Len(view[1].items) :
              view[1].items[k].allow_asset_drag_
                = ~DragDisabledFor(view[1], view[1].items[k].asset_)
    /\ (last.op = "create_drag_controller" /\ ~view[1].ub) =>
          LET item == view[1].items[last.item]
          IN  /\ drag_controller = Null <=> DragDisabledFor(view[1], item.asset_)
              /\ drag_controller # Null => drag_controller[1].asset_ = item.asset_

\* C8 witness: create_drag_controller returned null for an item shown by two
\* shelf types of which only one has the flag.
C8_Witness ==
    /\ last.op = "create_drag_controller"
    /\ ~view[1].ub
    /\ drag_controller = Null
    /\ LET shelves == asset_shelf_types_showing_asset(
                          asset_shelf_types, view[1].evil_C_,
                          view[1].items[last.item].asset_)
       IN  /\ Len(shelves) = 2
           /\ \E i \in Range(shelves) : asset_shelf_types[i].flag = {}

ExpectedItem(v, asset, display_flag) ==
    [asset_ |-> asset,
     identifier |-> asset.relative_path,
     label |-> IF "ASSETSHELF_SHOW_NAMES" \in display_flag
               THEN ED_asset_handle_get_name(asset)
               ELSE <<>>,
     preview_icon_id |-> ED_asset_handle_get_preview_icon_id(asset),
     allow_asset_drag_ |-> ~DragDisabledFor(v, asset)]

\* The view a pass builds from the shelf settings, the context, the library
\* and the shelf types of that pass alone.
ExpectedView(shelf_settings, C) ==
    LET filter == IF NoCatalogFor(shelf_settings)
                  THEN Null
                  ELSE Ptr(create_catalog_filter(
                               find_catalog_by_path(
                                   shelf_settings[1].active_catalog_path[1])[1].catalog_id))
        v == [shelf_settings_ |-> shelf_settings, evil_C_ |-> C, catalog_filter_ |-> filter,
              items |-> <<>>, registered |-> TRUE, ub |-> FALSE]
        Passes(asset) == ShownIn(v, asset) /\ InCatalogFilter(v, asset)
        shown == SelectSeq(asset_library[1].assets, Passes)
    IN  [v EXCEPT !.items = [k \in 1..Len(shown) |->
                                ExpectedItem(v, shown[k], shelf_settings[1].display_flag)]]

\* C9: the view of a build_asset_view pass is a new view whose catalog
\* filter and items follow from the shelf settings, context, library and
\* shelf types at that pass; nothing of the view it replaces remains.
C9_ViewRebuiltEachPass ==
    BuildAssetViewReturned => view = Ptr(ExpectedView(last.shelf_settings, last.C[1]))

\* C9 witness: a pass replaced the view of an earlier pass that had another
\* catalog filter and other items.
C9_Witness ==
    /\ BuildAssetViewReturned
    /\ last.replaced

IsSubsequence(sub, seq) ==
    \E f \in [1..Len(sub) -> 1..Len(seq)] :
        /\ \A j, k \in 1..Len(sub) : j < k => f[j] < f[k]
        /\ \A k \in 1..Len(sub) : sub[k] = seq[f[k]]

\* C10: build_items visits every asset of the library, in list order; the
\* items are a subsequence of the assets, each identified by its asset's
\* relative path, so identifiers are distinct when the paths are.
C10_VisitsEveryAsset ==
    BuildReturned =>
        LET assets == asset_library[1].assets
            items == view[1].items
        IN  /\ last.visited = [i \in 1..Len(assets) |-> i]
            /\ IsSubsequence(ItemAssetsOf(view[1]), assets)
            /\ \A k \in 1..Len(items) : items[k].identifier = items[k].asset_.relative_path
            /\ (\A i, j \in 1..Len(assets) :
                    i # j => assets[i].relative_path # assets[j].relative_path)
               => \A j, k \in 1..Len(items) :
                    j # k => items[j].identifier # items[k].identifier

\* C10 witness: the first asset was skipped, the iteration went on and the
\* second asset has the only item.
C10_Witness ==
    /\ BuildReturned
    /\ Len(asset_library[1].assets) = 2
    /\ last.visited = <<1, 2>>
    /\ ~ShownIn(view[1], asset_library[1].assets[1])
    /\ Len(view[1].items) = 1
    /\ view[1].items[1].asset_ = asset_library[1].assets[2]

====
